---- MODULE Spec2Model ----
(***************************************************************************)
(* Input validators of lab01_2022_input_validation: validate_url,          *)
(* validate_uuid and validate_file.  Strings are sequences of one-character*)
(* strings, and the regular expressions of the source are syntax trees     *)
(* evaluated by a position-set matcher with the semantics of the regex     *)
(* crate (unanchored search, '.' excludes the line feed, '$' is the end of *)
(* the text only).                                                         *)
(***************************************************************************)
EXTENDS Integers, Sequences, FiniteSets, TLC

VARIABLES
    pc,                   \* "call" before the validator runs, "done" after it returned
    lazy_init,            \* the lazy_static patterns initialised so far
    url,                  \* validate_url: argument url
    top_level_whitelist,  \* validate_url: argument top_level_whitelist
    url_result,           \* validate_url: returned Result<bool, String>
    uuid,                 \* validate_uuid: argument uuid
    uuid_result,          \* validate_uuid: returned bool
    filename,             \* validate_file: argument filename
    check_extension,      \* validate_file: argument check_extension
    disk,                 \* what infer::get_from_path finds at filename
    file_result,          \* validate_file: returned Result<u8, Error>
    statics,              \* concurrent callers: the value each lazy_static holds
    threads,              \* concurrent callers: each thread's call in progress
    HASHMAP,              \* file_upload: the upload table, Uuid -> (filepath, is_video)
    sha1,                 \* file_upload: the digest of NAMESPACE ++ name, per name
    demo_pc,              \* file_upload: the menu, or the handler loop that is reading
    printed,              \* file_upload: the last message written to stdout
    upload_log,           \* file_upload: the "File uploaded successfully" messages so far
    stdin_line            \* file_upload: the last line a handler read

concVars == <<statics, threads>>
demoVars == <<HASHMAP, sha1, demo_pc, printed, upload_log, stdin_line>>
callVars == <<pc, url, top_level_whitelist, url_result, uuid, uuid_result,
              filename, check_extension, disk, file_result>>
vars == <<pc, lazy_init, url, top_level_whitelist, url_result, uuid, uuid_result,
          filename, check_extension, disk, file_result, statics, threads,
          HASHMAP, sha1, demo_pc, printed, upload_log, stdin_line>>

(***************************************************************************)
(* Bounds of the explored inputs.                                          *)
(***************************************************************************)
MaxBodyLen == 4
MaxWhitelistLen == 2
MaxTldLen == 3
MaxEdits == 1
MaxPathParts == 4
MaxCalls == 2

(***************************************************************************)
(* Characters and the ASCII character classes of the regex crate.          *)
(***************************************************************************)
LowerLetters == <<"a", "b", "c", "d", "e", "f", "g", "h", "i", "j", "k", "l", "m",
                  "n", "o", "p", "q", "r", "s", "t", "u", "v", "w", "x", "y", "z">>
UpperLetters == <<"A", "B", "C", "D", "E", "F", "G", "H", "I", "J", "K", "L", "M",
                  "N", "O", "P", "Q", "R", "S", "T", "U", "V", "W", "X", "Y", "Z">>
Range(seq) == {seq[i] : i \in 1..Len(seq)}
Digit == {"0", "1", "2", "3", "4", "5", "6", "7", "8", "9"}
Alpha == Range(LowerLetters) \cup Range(UpperLetters)
Alnum == Alpha \cup Digit
HexDigit == Digit \cup {"a", "b", "c", "d", "e", "f", "A", "B", "C", "D", "E", "F"}

\* char::to_lowercase and char::to_uppercase on the ASCII letters.
LowerOf == [c \in Range(UpperLetters) |->
               LowerLetters[CHOOSE i \in 1..Len(UpperLetters) : UpperLetters[i] = c]]
UpperOf == [c \in Range(LowerLetters) |->
               UpperLetters[CHOOSE i \in 1..Len(LowerLetters) : LowerLetters[i] = c]]

to_lowercase(text) ==
    [i \in 1..Len(text) |-> IF text[i] \in DOMAIN LowerOf THEN LowerOf[text[i]] ELSE text[i]]

RECURSIVE Concat(_)
Concat(parts) == IF parts = <<>> THEN <<>> ELSE Head(parts) \o Concat(Tail(parts))

\* str::to_uppercase, used to state the case property of validate_uuid.
\* U+FB00, the ligature ff: one character, neither a letter class member nor a hex
\* digit, whose upper-case form is the two characters "FF".
LigatureFF == "U+FB00"

to_uppercase(text) ==
    Concat([i \in 1..Len(text) |->
        IF text[i] \in DOMAIN UpperOf THEN <<UpperOf[text[i]]>>
        ELSE IF text[i] = LigatureFF THEN <<"F", "F">>
        ELSE <<text[i]>>])

RECURSIVE StringsUpTo(_, _)
StringsUpTo(chars, n) ==
    IF n = 0 THEN {<<>>}
    ELSE LET shorter == StringsUpTo(chars, n - 1)
         IN  shorter \cup {Append(t, c) : t \in shorter, c \in chars}

RECURSIVE TuplesUpTo(_, _)
TuplesUpTo(items, n) ==
    IF n = 0 THEN {<<>>}
    ELSE LET shorter == TuplesUpTo(items, n - 1)
         IN  shorter \cup {Append(t, x) : t \in shorter, x \in items}

(***************************************************************************)
(* Regular expressions: syntax trees and the matcher.                      *)
(***************************************************************************)
Class(chars) == [k |-> "class", set |-> chars]
Lit(c) == Class({c})
AnyChar == [k |-> "any"]
StartText == [k |-> "start"]
EndText == [k |-> "end"]
Cat(parts) == [k |-> "cat", parts |-> parts]
Alt(parts) == [k |-> "alt", parts |-> parts]
Opt(r) == [k |-> "opt", r |-> r]
Rep(r, min, unbounded) == [k |-> "rep", r |-> r, min |-> min, unbounded |-> unbounded]

RECURSIVE Ends(_, _, _), EndsCat(_, _, _, _), EndsTimes(_, _, _, _), EndsStar(_, _, _, _)

\* The positions at which a match of r can end when it starts at a position of from.
Ends(r, text, from) ==
    IF from = {} THEN {}
    ELSE CASE r.k = "class" ->
                {i + 1 : i \in {j \in from : j < Len(text) /\ text[j + 1] \in r.set}}
           [] r.k = "any" ->
                {i + 1 : i \in {j \in from : j < Len(text) /\ text[j + 1] # "\n"}}
           [] r.k = "start" -> from \cap {0}
           [] r.k = "end" -> from \cap {Len(text)}
           [] r.k = "cat" -> EndsCat(r.parts, 1, text, from)
           [] r.k = "alt" -> UNION {Ends(r.parts[n], text, from) : n \in 1..Len(r.parts)}
           [] r.k = "opt" -> from \cup Ends(r.r, text, from)
           [] r.k = "rep" ->
                LET least == EndsTimes(r.r, r.min, text, from)
                IN  IF r.unbounded THEN EndsStar(r.r, text, least, least) ELSE least

EndsCat(parts, n, text, from) ==
    IF n > Len(parts) THEN from
    ELSE EndsCat(parts, n + 1, text, Ends(parts[n], text, from))

EndsTimes(r, times, text, from) ==
    IF times = 0 THEN from
    ELSE EndsTimes(r, times - 1, text, Ends(r, text, from))

EndsStar(r, text, seen, frontier) ==
    LET more == Ends(r, text, frontier) \ seen
    IN  IF more = {} THEN seen ELSE EndsStar(r, text, seen \cup more, more)

\* Regex::is_match: is there a match starting anywhere in the text.
is_match(regex, text) == Ends(regex, text, 0..Len(text)) # {}

(***************************************************************************)
(* Regex::new on a pattern text built at run time.  The texts the code     *)
(* builds hold only literals, '.', '\' escapes, '|', '$' and one group.    *)
(***************************************************************************)
RECURSIVE ParseAlternatives(_, _, _, _)
ParseAlternatives(pattern, i, atoms, alternatives) ==
    IF i > Len(pattern) THEN Alt(Append(alternatives, Cat(atoms)))
    ELSE CASE pattern[i] = "\\" ->
                ParseAlternatives(pattern, i + 2, Append(atoms, Lit(pattern[i + 1])),
                                  alternatives)
           [] pattern[i] = "." ->
                ParseAlternatives(pattern, i + 1, Append(atoms, AnyChar), alternatives)
           [] pattern[i] = "$" ->
                ParseAlternatives(pattern, i + 1, Append(atoms, EndText), alternatives)
           [] pattern[i] = "|" ->
                ParseAlternatives(pattern, i + 1, <<>>, Append(alternatives, Cat(atoms)))
           [] OTHER ->
                ParseAlternatives(pattern, i + 1, Append(atoms, Lit(pattern[i])),
                                  alternatives)

RegexNew(pattern) ==
    IF Len(pattern) >= 2 /\ Head(pattern) = "(" /\ pattern[Len(pattern)] = ")"
    THEN ParseAlternatives(SubSeq(pattern, 2, Len(pattern) - 1), 1, <<>>, <<>>)
    ELSE ParseAlternatives(pattern, 1, <<>>, <<>>)

(***************************************************************************)
(* Results.                                                                *)
(***************************************************************************)
Pending == [tag |-> "Pending"]
Ok(v) == [tag |-> "Ok", val |-> v]
Err(e) == [tag |-> "Err", err |-> e]
None == [tag |-> "None"]
Some(v) == [tag |-> "Some", val |-> v]

(***************************************************************************)
(* validate_url                                                            *)
(***************************************************************************)
\* ^([[:alnum:]]+://)?([[:alnum:].-]+)
PROTOTYPE_SUB_LEVEL_PATTERN ==
    Cat(<<StartText,
          Opt(Cat(<<Rep(Class(Alnum), 1, TRUE), Lit(":"), Lit("/"), Lit("/")>>)),
          Rep(Class(Alnum \cup {".", "-"}), 1, TRUE)>>)

\* (\.[[:alpha:].]{1,}[[:alpha:]])
TOP_LEVEL_PATTERN ==
    Cat(<<Lit("."), Rep(Class(Alpha \cup {"."}), 1, TRUE), Class(Alpha)>>)

\* END_PATTERN with the closing '$' left out.
END_PATTERN_Unanchored ==
    Opt(Cat(<<Class({"/", "#"}), Rep(AnyChar, 0, TRUE)>>))

\* ([/#].*)?$
END_PATTERN ==
    Cat(<<Opt(Cat(<<Class({"/", "#"}), Rep(AnyChar, 0, TRUE)>>)), EndText>>)

\* static ref REGEX in the None arm
REGEX == Cat(<<PROTOTYPE_SUB_LEVEL_PATTERN, TOP_LEVEL_PATTERN, END_PATTERN>>)

\* static ref TOP_LEVEL_REGEX: "^{}$" around TOP_LEVEL_PATTERN
TOP_LEVEL_REGEX == Cat(<<StartText, TOP_LEVEL_PATTERN, EndText>>)

\* The loop with 'continue' in place of the early return: an invalid entry is skipped.
RECURSIVE WhitelistLoopSkipsInvalid(_, _, _)
WhitelistLoopSkipsInvalid(whitelist, index, top_level_list) ==
    IF index > Len(whitelist) THEN Ok(Append(top_level_list, ")"))
    ELSE LET tld == whitelist[index]
         IN  IF ~is_match(Cat(<<StartText, TOP_LEVEL_PATTERN, EndText>>), tld)
             THEN WhitelistLoopSkipsInvalid(whitelist, index + 1, top_level_list)
             ELSE WhitelistLoopSkipsInvalid(whitelist, index + 1,
                      top_level_list \o <<"\\">> \o tld
                          \o (IF index # Len(whitelist) THEN <<"|">> ELSE <<>>))

\* The for loop over the whitelist: Err at the first invalid entry, else the text of
\* the alternation "(\tld1|\tld2|...)".  index counts from 1 here.
RECURSIVE WhitelistLoop(_, _, _)
WhitelistLoop(whitelist, index, top_level_list) ==
    IF index > Len(whitelist) THEN Ok(Append(top_level_list, ")"))
    ELSE LET tld == whitelist[index]
         IN  IF ~is_match(TOP_LEVEL_REGEX, tld)
             THEN Err("Invalid top level domain in white list.")
             ELSE WhitelistLoop(whitelist, index + 1,
                      top_level_list \o <<"\\">> \o tld
                          \o (IF index # Len(whitelist) THEN <<"|">> ELSE <<>>))

validate_url(u, whitelist_opt) ==
    IF whitelist_opt = None THEN Ok(is_match(REGEX, u))
    ELSE LET whitelist == whitelist_opt.val
         IN  IF whitelist = <<>> THEN Err("The white list is empty.")
             ELSE LET built == WhitelistLoop(whitelist, 1, <<"(">>)
                  IN  IF built.tag = "Err" THEN built
                      ELSE Ok(is_match(Cat(<<PROTOTYPE_SUB_LEVEL_PATTERN,
                                             RegexNew(built.val),
                                             END_PATTERN>>), u))

\* The lazy statics a call of validate_url initialises on its way.
UrlLazyTouched(whitelist_opt) ==
    IF whitelist_opt = None THEN {"validate_url::REGEX"}
    ELSE IF whitelist_opt.val = <<>> THEN {}
    ELSE {"validate_url::TOP_LEVEL_REGEX"}

ValidateUrlNone ==
    /\ pc = "call"
    /\ top_level_whitelist = None
    /\ url_result' = validate_url(url, top_level_whitelist)
    /\ lazy_init' = lazy_init \cup UrlLazyTouched(top_level_whitelist)
    /\ pc' = "done"
    /\ UNCHANGED <<url, top_level_whitelist, uuid, uuid_result, filename,
                   check_extension, disk, file_result>>
    /\ UNCHANGED <<concVars, demoVars>>

ValidateUrlWhitelist ==
    /\ pc = "call"
    /\ top_level_whitelist # None
    /\ url_result' = validate_url(url, top_level_whitelist)
    /\ lazy_init' = lazy_init \cup UrlLazyTouched(top_level_whitelist)
    /\ pc' = "done"
    /\ UNCHANGED <<url, top_level_whitelist, uuid, uuid_result, filename,
                   check_extension, disk, file_result>>
    /\ UNCHANGED <<concVars, demoVars>>

(***************************************************************************)
(* Inputs of validate_url.                                                 *)
(***************************************************************************)
UrlPrefixes ==
    {<<>>,
     <<"c", ":", "/", "/">>,
     <<"1", "C", ":", "/", "/">>,
     <<":", "/", "/">>,
     <<"c", ":", "/">>,
     <<"_", ":", "/", "/">>}
UrlBodyChars == {"c", "C", "1", ".", "-"}
UrlSuffixes ==
    {<<>>,
     <<"/">>,
     <<"#", "?", "c">>,
     <<"?">>,
     <<":", "/">>,
     <<"/", "\n">>}
UrlInputs ==
    {p \o b \o s : p \in UrlPrefixes, b \in StringsUpTo(UrlBodyChars, MaxBodyLen),
                   s \in UrlSuffixes}
UrlWhitelists ==
    {<<<<".", "c", "c">>>>,
     <<<<".", "C", "c">>, <<".", ".", "c">>>>}

UrlSamples == {<<>>, <<"c", ".", "c", "c">>, <<"c", ".", "c", "c", "?">>}
TldChars == {"c", "."}
TldExtras == {<<".", "1", "c">>, <<".", "C", "c">>, <<".", "c", "-">>, <<".", "c", "c", "\n">>}
WhitelistInputs ==
    TuplesUpTo(StringsUpTo(TldChars, MaxTldLen) \cup TldExtras, MaxWhitelistLen)

IdleUuid == uuid = <<>> /\ uuid_result = Pending
IdleFile ==
    filename = <<>> /\ check_extension = FALSE /\ disk = None /\ file_result = Pending
IdleUrl == url = <<>> /\ top_level_whitelist = None /\ url_result = Pending
IdleConcurrent == statics = <<>> /\ threads = <<>>
IdleDemo ==
    /\ HASHMAP = <<>>
    /\ sha1 = <<>>
    /\ demo_pc = "none"
    /\ printed = Pending
    /\ upload_log = {}
    /\ stdin_line = <<>>

InitUrl ==
    /\ pc = "call"
    /\ lazy_init = {}
    /\ url \in UrlInputs
    /\ top_level_whitelist \in {None} \cup {Some(w) : w \in UrlWhitelists}
    /\ url_result = Pending
    /\ IdleUuid
    /\ IdleFile
    /\ IdleConcurrent
    /\ IdleDemo

InitWhitelist ==
    /\ pc = "call"
    /\ lazy_init = {}
    /\ url \in UrlSamples
    /\ top_level_whitelist \in {None} \cup {Some(w) : w \in WhitelistInputs}
    /\ url_result = Pending
    /\ IdleUuid
    /\ IdleFile
    /\ IdleConcurrent
    /\ IdleDemo

NextUrl == ValidateUrlNone \/ ValidateUrlWhitelist

SpecUrl == InitUrl /\ [][NextUrl]_vars
SpecWhitelist == InitWhitelist /\ [][NextUrl]_vars

(***************************************************************************)
(* Properties of validate_url.                                             *)
(***************************************************************************)
\* a is where the optional scheme "alnum+ ://" ends (0: no scheme).
SchemeEndsAt(u, a) ==
    \/ a = 0
    \/ /\ a >= 4
       /\ a <= Len(u)
       /\ SubSeq(u, a - 2, a) = <<":", "/", "/">>
       /\ \A n \in 1..(a - 3) : u[n] \in Alnum

\* u[a+1..b] is a non-empty host of alphanumerics, dots and hyphens.
HostBetween(u, a, b) ==
    /\ a < b
    /\ b <= Len(u)
    /\ \A n \in (a + 1)..b : u[n] \in Alnum \cup {".", "-"}

\* t is a dot, then letters/dots, ending in a letter, at least 3 characters.
IsGenericTld(t) ==
    /\ Len(t) >= 3
    /\ t[1] = "."
    /\ \A n \in 2..(Len(t) - 1) : t[n] \in Alpha \cup {"."}
    /\ t[Len(t)] \in Alpha

\* What follows position c is nothing, or starts with '/' or '#'.
FragmentFrom(u, c) == c = Len(u) \/ (c < Len(u) /\ u[c + 1] \in {"/", "#"})

IsWholeUrl(u) ==
    \E a \in 0..Len(u), b \in 0..Len(u), c \in 0..Len(u) :
        /\ SchemeEndsAt(u, a)
        /\ HostBetween(u, a, b)
        /\ b <= c
        /\ IsGenericTld(SubSeq(u, b + 1, c))
        /\ FragmentFrom(u, c)

IsLiteralWhitelistUrl(u, whitelist) ==
    \E n \in 1..Len(whitelist), a \in 0..Len(u), b \in 0..Len(u) :
        /\ SchemeEndsAt(u, a)
        /\ HostBetween(u, a, b)
        /\ b + Len(whitelist[n]) <= Len(u)
        /\ SubSeq(u, b + 1, b + Len(whitelist[n])) = whitelist[n]
        /\ FragmentFrom(u, b + Len(whitelist[n]))

\* C1: with a whitelist, validate_url returns Ok(true) only for scheme/host, then a
\* character-for-character copy of a whitelist entry, then nothing or a '/' or '#'
\* fragment.
C1_WhitelistEntriesLiteral ==
    (pc = "done" /\ top_level_whitelist # None /\ url_result = Ok(TRUE))
        => IsLiteralWhitelistUrl(url, top_level_whitelist.val)

\* C2: validate_url returns an error exactly when the whitelist is given and is empty
\* or holds, at any position, an entry that is not a generic top-level domain; the
\* error does not depend on the url.
C2_WhitelistErrorExactly ==
    pc = "done" =>
        /\ url_result.tag = "Err" <=>
              /\ top_level_whitelist # None
              /\ \/ top_level_whitelist.val = <<>>
                 \/ \E n \in 1..Len(top_level_whitelist.val) :
                        ~IsGenericTld(top_level_whitelist.val[n])
        /\ url_result.tag = "Err" =>
              url_result.err = IF top_level_whitelist.val = <<>>
                               THEN "The white list is empty."
                               ELSE "Invalid top level domain in white list."
        /\ url_result.tag \in {"Ok", "Err"}

C2_Witness ==
    /\ pc = "done"
    /\ top_level_whitelist # None
    /\ Len(top_level_whitelist.val) = 2
    /\ IsGenericTld(top_level_whitelist.val[1])
    /\ ~IsGenericTld(top_level_whitelist.val[2])
    /\ url = <<"c", ".", "c", "c">>
    /\ url_result = Err("Invalid top level domain in white list.")

\* C3: without a whitelist validate_url never fails, and it returns Ok(true) only when
\* the whole input is [scheme ://] host tld [fragment starting with '/' or '#'].
C3_NoPartialValidation ==
    (pc = "done" /\ top_level_whitelist = None) =>
        /\ url_result.tag = "Ok"
        /\ url_result.val => IsWholeUrl(url)

C3_Witness ==
    /\ pc = "done"
    /\ top_level_whitelist = None
    /\ url = <<"c", ":", "/", "/", "c", ".", "c", "c", "/">>
    /\ url_result = Ok(TRUE)

\* C4: without a whitelist every input [scheme ://] host tld [('/' or '#') rest], with
\* rest any characters at all, is accepted.
C4_GrammarAccepted ==
    (pc = "done" /\ top_level_whitelist = None /\ IsWholeUrl(url))
        => url_result = Ok(TRUE)

(***************************************************************************)
(* validate_uuid                                                           *)
(***************************************************************************)
Hex(n) == Rep(Class(HexDigit), n, FALSE)

\* The pattern with '^' and '$' left out.
UUID_REGEX_Unanchored ==
    Cat(<<Hex(8), Lit("-"), Hex(4), Lit("-"), Class({"5"}), Hex(3), Lit("-"),
          Class({"8", "9", "a", "b", "A", "B"}), Hex(3), Lit("-"), Hex(12)>>)

\* ^[0-9a-fA-F]{8}-[0-9a-fA-F]{4}-[5][0-9a-fA-F]{3}-[89abAB][0-9a-fA-F]{3}-[0-9a-fA-F]{12}$
UUID_REGEX ==
    Cat(<<StartText,
          Hex(8), Lit("-"), Hex(4), Lit("-"), Class({"5"}), Hex(3), Lit("-"),
          Class({"8", "9", "a", "b", "A", "B"}), Hex(3), Lit("-"), Hex(12),
          EndText>>)

validate_uuid(u) == is_match(UUID_REGEX, u)

ValidateUuid ==
    /\ pc = "call"
    /\ uuid_result' = validate_uuid(uuid)
    /\ lazy_init' = lazy_init \cup {"validate_uuid::REGEX"}
    /\ pc' = "done"
    /\ UNCHANGED <<url, top_level_whitelist, url_result, uuid, filename,
                   check_extension, disk, file_result>>
    /\ UNCHANGED <<concVars, demoVars>>

(***************************************************************************)
(* Inputs of validate_uuid: the strings of the unit tests, edited.         *)
(***************************************************************************)
BaseUuids ==
    {<<>>,
     <<"c", "7", "0", "d", "c", "4", "5", "4", "-", "1", "c", "7", "d", "-",
       "5", "c", "5", "9", "-", "8", "f", "e", "d", "-",
       "3", "a", "3", "2", "1", "e", "6", "a", "4", "a", "4", "9">>,
     <<"C", "7", "0", "D", "C", "4", "5", "4", "-", "1", "C", "7", "D", "-",
       "5", "C", "5", "9", "-", "8", "f", "E", "D", "-",
       "3", "A", "3", "2", "1", "E", "6", "A", "4", "A", "4", "9">>}
EditPositions == {1, 9, 10, 14, 15, 19, 20, 24, 36, 37}
EditChars == {"4", "5", "b", "B", "c", "G", "-", "\n", LigatureFF}

Substitute(text, i, c) == [text EXCEPT ![i] = c]
Delete(text, i) == SubSeq(text, 1, i - 1) \o SubSeq(text, i + 1, Len(text))
Insert(text, i, c) == SubSeq(text, 1, i - 1) \o <<c>> \o SubSeq(text, i, Len(text))

OneEdit(text) ==
    {Substitute(text, i, c) : i \in EditPositions \cap (1..Len(text)), c \in EditChars}
        \cup {Delete(text, i) : i \in EditPositions \cap (1..Len(text))}
        \cup {Insert(text, i, c) : i \in EditPositions \cap (1..(Len(text) + 1)),
                                   c \in EditChars}

RECURSIVE Edited(_, _)
Edited(texts, n) ==
    IF n = 0 THEN texts
    ELSE LET fewer == Edited(texts, n - 1)
         IN  fewer \cup UNION {OneEdit(t) : t \in fewer}

InitUuid ==
    /\ pc = "call"
    /\ lazy_init = {}
    /\ uuid \in Edited(BaseUuids, MaxEdits)
    /\ uuid_result = Pending
    /\ IdleUrl
    /\ IdleFile
    /\ IdleConcurrent
    /\ IdleDemo

SpecUuid == InitUuid /\ [][ValidateUuid]_vars

(***************************************************************************)
(* Properties of validate_uuid.                                            *)
(***************************************************************************)
\* 36 characters, hyphens at 9, 14, 19 and 24, '5' at 15, the variant at 20, hex elsewhere.
IsCanonicalV5(u) ==
    /\ Len(u) = 36
    /\ \A i \in 1..36 :
          IF i \in {9, 14, 19, 24} THEN u[i] = "-"
          ELSE IF i = 15 THEN u[i] = "5"
          ELSE IF i = 20 THEN u[i] \in {"8", "9", "a", "b", "A", "B"}
          ELSE u[i] \in HexDigit

\* C5: validate_uuid returns a bool for every string, true exactly for the 36-character
\* 8-4-4-4-12 layout with version 5 and variant 8, 9, a or b in either case, and a
\* string is accepted exactly when its upper-case and its lower-case form both are.
C5_UuidFormatExactly ==
    pc = "done" =>
        /\ uuid_result \in BOOLEAN
        /\ uuid_result <=> IsCanonicalV5(uuid)
        /\ uuid_result <=>
              (validate_uuid(to_uppercase(uuid)) /\ validate_uuid(to_lowercase(uuid)))

C5_Witness ==
    /\ pc = "done"
    /\ uuid_result = TRUE
    /\ uuid[20] = "B"
    /\ uuid # to_lowercase(uuid)
    /\ uuid # to_uppercase(uuid)

(***************************************************************************)
(* validate_file                                                           *)
(***************************************************************************)
\* infer: the extension and the matcher type of some of the signatures it knows.
InferTypes ==
    {[extension |-> <<"j", "p", "g">>, matcher_type |-> "Image"],
     [extension |-> <<"p", "n", "g">>, matcher_type |-> "Image"],
     [extension |-> <<"a", "v", "i">>, matcher_type |-> "Video"],
     [extension |-> <<"p", "d", "f">>, matcher_type |-> "Archive"]}

\* infer::get_from_path: the file cannot be read, holds no known signature, or is
\* of a known type.
GetFromPathResults ==
    {Err("No such file or directory (os error 2)"), Ok(None)}
        \cup {Ok(Some(kind)) : kind \in InferTypes}

MatchCategory(kind) ==
    CASE kind.matcher_type = "Image" -> Ok(1)
      [] kind.matcher_type = "Video" -> Ok(2)
      [] OTHER -> Ok(0)

\* validate_file that checks the extension whatever check_extension says.
validate_file_AlwaysChecks(name, check, found) ==
    IF found.tag = "Err" THEN found
    ELSE IF found.val = None THEN Err("File type is unknown.")
    ELSE LET kind == found.val.val
             file_extension == to_lowercase(kind.extension)
             regex == RegexNew(file_extension \o <<"$">>)
         IN  IF ~is_match(regex, to_lowercase(name)) THEN Ok(0)
             ELSE MatchCategory(kind)

\* validate_file that reports a wrong extension as an error.
validate_file_WrongExtensionIsError(name, check, found) ==
    IF found.tag = "Err" THEN found
    ELSE IF found.val = None THEN Err("File type is unknown.")
    ELSE LET kind == found.val.val
             file_extension == to_lowercase(kind.extension)
             regex == RegexNew(file_extension \o <<"$">>)
         IN  IF check /\ ~is_match(regex, to_lowercase(name))
             THEN Err("Invalid extension.")
             ELSE MatchCategory(kind)

\* validate_file that matches the file name as written, without lower-casing it.
validate_file_CaseSensitive(name, check, found) ==
    IF found.tag = "Err" THEN found
    ELSE IF found.val = None THEN Err("File type is unknown.")
    ELSE LET kind == found.val.val
             file_extension == to_lowercase(kind.extension)
             regex == RegexNew(file_extension \o <<"$">>)
         IN  IF check /\ ~is_match(regex, name) THEN Ok(0)
             ELSE MatchCategory(kind)

\* found is what infer::get_from_path(filename) returns.
validate_file(name, check, found) ==
    IF found.tag = "Err" THEN found
    ELSE IF found.val = None THEN Err("File type is unknown.")
    ELSE LET kind == found.val.val
             file_extension == to_lowercase(kind.extension)
             regex == RegexNew(file_extension \o <<"$">>)
         IN  IF check /\ ~is_match(regex, to_lowercase(name)) THEN Ok(0)
             ELSE MatchCategory(kind)

ValidateFile ==
    /\ pc = "call"
    /\ file_result' = validate_file(filename, check_extension, disk)
    /\ pc' = "done"
    /\ UNCHANGED <<lazy_init, url, top_level_whitelist, url_result, uuid, uuid_result,
                   filename, check_extension, disk>>
    /\ UNCHANGED <<concVars, demoVars>>

(***************************************************************************)
(* Inputs of validate_file.                                                *)
(***************************************************************************)
PathParts ==
    {<<"a">>, <<".">>, <<"x">>,
     <<"j", "p", "g">>, <<"J", "p", "G">>, <<"p", "n", "g">>, <<"a", "v", "i">>}
Paths == {Concat(parts) : parts \in TuplesUpTo(PathParts, MaxPathParts)}

InitFile ==
    /\ pc = "call"
    /\ lazy_init = {}
    /\ filename \in Paths
    /\ check_extension \in BOOLEAN
    /\ disk \in GetFromPathResults
    /\ file_result = Pending
    /\ IdleUrl
    /\ IdleUuid
    /\ IdleConcurrent
    /\ IdleDemo

SpecFile == InitFile /\ [][ValidateFile]_vars

(***************************************************************************)
(* Properties of validate_file.                                            *)
(***************************************************************************)
Recognised == disk.tag = "Ok" /\ disk.val # None
SniffedExtension == disk.val.val.extension
SniffedCategory == disk.val.val.matcher_type

EndsWith(text, suffix) ==
    /\ Len(suffix) <= Len(text)
    /\ SubSeq(text, Len(text) - Len(suffix) + 1, Len(text)) = suffix

SameLetter(c, d) ==
    \/ c = d
    \/ \E n \in 1..Len(LowerLetters) : {c, d} = {LowerLetters[n], UpperLetters[n]}

SameIgnoringCase(a, b) ==
    Len(a) = Len(b) /\ \A i \in 1..Len(a) : SameLetter(a[i], b[i])

\* The path ends in the canonical extension, in any letter case.
EndsWithExtension(path, extension) ==
    /\ Len(extension) <= Len(path)
    /\ SameIgnoringCase(SubSeq(path, Len(path) - Len(extension) + 1, Len(path)),
                        extension)

\* The path ends in <extension>.<other>, other a further suffix that is not the
\* extension again.
EndsWithFurtherSuffix(path, extension) ==
    \E n \in 1..Len(path) :
        LET other == SubSeq(path, Len(path) - n + 1, Len(path))
        IN  /\ \A i \in 1..n : other[i] # "."
            /\ ~SameIgnoringCase(other, extension)
            /\ EndsWith(path, extension \o <<".">> \o other)

CategoryCode(category) ==
    IF category = "Image" THEN 1 ELSE IF category = "Video" THEN 2 ELSE 0

\* C7: with check_extension on, a recognised file whose path ends in <ext>.<other>,
\* for any further suffix <other>, fails the extension check: the result is Ok(0).
C7_NoPartialSuffixMatch ==
    (/\ pc = "done"
     /\ check_extension
     /\ Recognised
     /\ EndsWithFurtherSuffix(filename, SniffedExtension))
        => file_result = Ok(0)

\* C8: with check_extension off, a recognised file is classified by its sniffed
\* category alone, whatever the path: Image 1, Video 2, any other category 0.
C8_CategoryAloneWithoutCheck ==
    (pc = "done" /\ ~check_extension /\ Recognised)
        => file_result = Ok(CategoryCode(SniffedCategory))

C8_Witness ==
    /\ pc = "done"
    /\ ~check_extension
    /\ Recognised
    /\ SniffedCategory = "Video"
    /\ ~EndsWithExtension(filename, SniffedExtension)
    /\ file_result = Ok(2)

\* C9: validate_file returns an error exactly when the file cannot be read (the I/O
\* error itself) or has no known signature ("File type is unknown."), whatever
\* check_extension and the path; a recognised file under a path that does not end in
\* its canonical extension gives Ok(0) with the check on and its category with it off.
C9_ErrorsExactly ==
    pc = "done" =>
        /\ file_result.tag \in {"Ok", "Err"}
        /\ file_result.tag = "Err" <=> ~Recognised
        /\ disk.tag = "Err" => file_result = disk
        /\ disk = Ok(None) => file_result = Err("File type is unknown.")
        /\ (Recognised /\ ~EndsWithExtension(filename, SniffedExtension)) =>
              file_result = IF check_extension THEN Ok(0)
                            ELSE Ok(CategoryCode(SniffedCategory))

C9_Witness ==
    /\ pc = "done"
    /\ check_extension
    /\ Recognised
    /\ SniffedExtension = <<"j", "p", "g">>
    /\ filename = <<"a", ".", "p", "n", "g">>
    /\ file_result = Ok(0)

\* C10: with check_extension on, a recognised file under a path that ends in its
\* canonical extension, in any mix of upper and lower case, passes the extension
\* check: the result is 1 for an image and 2 for a video.
C10_ExtensionCaseInsensitive ==
    (/\ pc = "done"
     /\ check_extension
     /\ Recognised
     /\ EndsWithExtension(filename, SniffedExtension))
        => /\ file_result = Ok(CategoryCode(SniffedCategory))
           /\ file_result = validate_file(to_lowercase(filename), TRUE, disk)

C10_Witness ==
    /\ pc = "done"
    /\ check_extension
    /\ Recognised
    /\ SniffedExtension = <<"j", "p", "g">>
    /\ filename = <<"a", ".", "J", "p", "G">>
    /\ file_result = Ok(1)

(***************************************************************************)
(* Concurrent callers of validate_url and validate_uuid.  A call takes two *)
(* steps: the first dereference of its lazy static (std::sync::Once runs   *)
(* the initializer in one thread while the others wait), then the match on *)
(* the value the static holds.                                             *)
(***************************************************************************)
Threads == {1, 2}
Uninit == [tag |-> "Uninit"]
StaticNames ==
    {"validate_url::REGEX", "validate_url::TOP_LEVEL_REGEX", "validate_uuid::REGEX"}

\* The initializer expression of each lazy_static! block.
StaticInitializer(name) ==
    CASE name = "validate_url::REGEX" -> REGEX
      [] name = "validate_url::TOP_LEVEL_REGEX" -> TOP_LEVEL_REGEX
      [] name = "validate_uuid::REGEX" -> UUID_REGEX

\* Deref of a lazy static: the initializer runs if no thread has run it yet.
Deref(st, name) ==
    IF st[name] = Uninit THEN [st EXCEPT ![name] = StaticInitializer(name)] ELSE st

\* The for loop over the whitelist, on the pattern the static holds.
RECURSIVE WhitelistLoopUsing(_, _, _, _)
WhitelistLoopUsing(top_level_regex, whitelist, index, top_level_list) ==
    IF index > Len(whitelist) THEN Ok(Append(top_level_list, ")"))
    ELSE LET tld == whitelist[index]
         IN  IF ~is_match(top_level_regex, tld)
             THEN Err("Invalid top level domain in white list.")
             ELSE WhitelistLoopUsing(top_level_regex, whitelist, index + 1,
                      top_level_list \o <<"\\">> \o tld
                          \o (IF index # Len(whitelist) THEN <<"|">> ELSE <<>>))

\* The Some arm keeping its regex in the static REGEX of the None arm: the first
\* pattern built is stored and used from then on.
WhitelistArm_CachesRegex(st, u, whitelist) ==
    LET built == WhitelistLoopUsing(st["validate_url::TOP_LEVEL_REGEX"], whitelist, 1,
                                    <<"(">>)
    IN  IF built.tag = "Err" THEN [statics |-> st, result |-> built]
        ELSE LET regex == Cat(<<PROTOTYPE_SUB_LEVEL_PATTERN, RegexNew(built.val),
                                END_PATTERN>>)
                 after == IF st["validate_url::REGEX"] = Uninit
                          THEN [st EXCEPT !["validate_url::REGEX"] = regex]
                          ELSE st
             IN  [statics |-> after,
                  result |-> Ok(is_match(after["validate_url::REGEX"], u))]

\* The Some arm after the emptiness test: the loop, the regex local to the call, the
\* match.  No static is written.
WhitelistArm(st, u, whitelist) ==
    LET built == WhitelistLoopUsing(st["validate_url::TOP_LEVEL_REGEX"], whitelist, 1,
                                    <<"(">>)
    IN  IF built.tag = "Err" THEN [statics |-> st, result |-> built]
        ELSE LET regex == Cat(<<PROTOTYPE_SUB_LEVEL_PATTERN, RegexNew(built.val),
                                END_PATTERN>>)
             IN  [statics |-> st, result |-> Ok(is_match(regex, u))]

UrlCall(u, whitelist_opt) == [op |-> "validate_url", url |-> u, whitelist |-> whitelist_opt]
UuidCall(u) == [op |-> "validate_uuid", uuid |-> u]

ConcurrentUrls == {<<"c", ".", "c", "c">>, <<"c", ".", "C", "c">>, <<"c", ".", "-", "c">>}
ConcurrentWhitelists ==
    {None, Some(<<>>), Some(<<<<".", "c">>>>), Some(<<<<".", "c", "c">>>>),
     Some(<<<<".", "C", "c">>, <<".", ".", "c">>>>)}
ConcurrentCalls ==
    {UrlCall(u, w) : u \in ConcurrentUrls, w \in ConcurrentWhitelists}
        \cup {UuidCall(u) : u \in BaseUuids}

Initialised(st) == {n \in StaticNames : st[n] # Uninit}

\* A thread enters validate_url or validate_uuid.
Enter(t, call) ==
    /\ threads[t].pc \in {"idle", "returned"}
    /\ threads[t].calls < MaxCalls
    /\ threads' = [threads EXCEPT ![t] = [pc |-> "entered", call |-> call,
                                          result |-> Pending, calls |-> @.calls + 1]]
    /\ UNCHANGED <<statics, lazy_init, callVars, demoVars>>

\* None arm: the first use of REGEX.
UrlNoneDeref(t) ==
    /\ threads[t].pc = "entered"
    /\ threads[t].call.op = "validate_url"
    /\ threads[t].call.whitelist = None
    /\ statics' = Deref(statics, "validate_url::REGEX")
    /\ lazy_init' = Initialised(statics')
    /\ threads' = [threads EXCEPT ![t].pc = "matching"]
    /\ UNCHANGED <<callVars, demoVars>>

\* None arm: Ok(REGEX.is_match(url)).
UrlNoneMatch(t) ==
    /\ threads[t].pc = "matching"
    /\ threads[t].call.op = "validate_url"
    /\ threads[t].call.whitelist = None
    /\ threads' = [threads EXCEPT
          ![t].pc = "returned",
          ![t].result = Ok(is_match(statics["validate_url::REGEX"], threads[t].call.url))]
    /\ UNCHANGED <<statics, lazy_init, callVars, demoVars>>

\* Some arm: the empty whitelist returns before any static is used.
UrlEmptyWhitelist(t) ==
    /\ threads[t].pc = "entered"
    /\ threads[t].call.op = "validate_url"
    /\ threads[t].call.whitelist = Some(<<>>)
    /\ threads' = [threads EXCEPT ![t].pc = "returned",
                                  ![t].result = Err("The white list is empty.")]
    /\ UNCHANGED <<statics, lazy_init, callVars, demoVars>>

\* Some arm: the first use of TOP_LEVEL_REGEX.
UrlWhitelistDeref(t) ==
    /\ threads[t].pc = "entered"
    /\ threads[t].call.op = "validate_url"
    /\ threads[t].call.whitelist \notin {None, Some(<<>>)}
    /\ statics' = Deref(statics, "validate_url::TOP_LEVEL_REGEX")
    /\ lazy_init' = Initialised(statics')
    /\ threads' = [threads EXCEPT ![t].pc = "matching"]
    /\ UNCHANGED <<callVars, demoVars>>

\* Some arm: the loop, the regex of this call, the match.
UrlWhitelistMatch(t) ==
    /\ threads[t].pc = "matching"
    /\ threads[t].call.op = "validate_url"
    /\ threads[t].call.whitelist # None
    /\ LET out == WhitelistArm(statics, threads[t].call.url, threads[t].call.whitelist.val)
       IN  /\ statics' = out.statics
           /\ threads' = [threads EXCEPT ![t].pc = "returned", ![t].result = out.result]
    /\ lazy_init' = Initialised(statics')
    /\ UNCHANGED <<callVars, demoVars>>

\* validate_uuid: the first use of its REGEX.
UuidDeref(t) ==
    /\ threads[t].pc = "entered"
    /\ threads[t].call.op = "validate_uuid"
    /\ statics' = Deref(statics, "validate_uuid::REGEX")
    /\ lazy_init' = Initialised(statics')
    /\ threads' = [threads EXCEPT ![t].pc = "matching"]
    /\ UNCHANGED <<callVars, demoVars>>

\* validate_uuid: REGEX.is_match(uuid).
UuidMatch(t) ==
    /\ threads[t].pc = "matching"
    /\ threads[t].call.op = "validate_uuid"
    /\ threads' = [threads EXCEPT
          ![t].pc = "returned",
          ![t].result = is_match(statics["validate_uuid::REGEX"], threads[t].call.uuid)]
    /\ UNCHANGED <<statics, lazy_init, callVars, demoVars>>

InitConcurrent ==
    /\ pc = "done"
    /\ lazy_init = {}
    /\ IdleUrl
    /\ IdleUuid
    /\ IdleFile
    /\ IdleDemo
    /\ statics = [n \in StaticNames |-> Uninit]
    /\ threads = [t \in Threads |->
                     [pc |-> "idle", call |-> UuidCall(<<>>), result |-> Pending,
                      calls |-> 0]]

NextConcurrent ==
    \E t \in Threads :
        \/ \E call \in ConcurrentCalls : Enter(t, call)
        \/ UrlNoneDeref(t)
        \/ UrlNoneMatch(t)
        \/ UrlEmptyWhitelist(t)
        \/ UrlWhitelistDeref(t)
        \/ UrlWhitelistMatch(t)
        \/ UuidDeref(t)
        \/ UuidMatch(t)

SpecConcurrent == InitConcurrent /\ [][NextConcurrent]_vars

(***************************************************************************)
(* Properties of concurrent calls.                                         *)
(***************************************************************************)
\* The result of the same call made alone.
IsolatedResult(call) ==
    IF call.op = "validate_url" THEN validate_url(call.url, call.whitelist)
    ELSE validate_uuid(call.uuid)

ReturnedAsIsolated ==
    \A t \in Threads :
        threads[t].pc = "returned" => threads[t].result = IsolatedResult(threads[t].call)

StaticsHoldFixedPatterns ==
    /\ statics["validate_url::REGEX"] \in {Uninit, REGEX}
    /\ statics["validate_url::TOP_LEVEL_REGEX"] \in {Uninit, TOP_LEVEL_REGEX}
    /\ statics["validate_uuid::REGEX"] \in {Uninit, UUID_REGEX}

StaticsWrittenOnce ==
    \A n \in StaticNames : statics[n] # Uninit => statics'[n] = statics[n]

\* C11: in every interleaving of validate_url and validate_uuid calls each call
\* returns what the same call returns alone; a lazy static holds nothing or its fixed
\* pattern, never one built from a whitelist, and once written it is not written again.
C11_StatelessAcrossCalls ==
    /\ [](ReturnedAsIsolated /\ StaticsHoldFixedPatterns)
    /\ [][StaticsWrittenOnce]_vars

C11_Witness ==
    \E t \in Threads, o \in Threads :
        /\ t # o
        /\ threads[t].pc = "returned"
        /\ threads[t].calls = 2
        /\ threads[t].call.op = "validate_url"
        /\ threads[t].call.whitelist = None
        /\ threads[t].result = Ok(TRUE)
        /\ threads[o].pc = "matching"
        /\ threads[o].call.op = "validate_url"
        /\ threads[o].call.whitelist # None
        /\ \A n \in StaticNames : statics[n] # Uninit

(***************************************************************************)
(* examples/file_upload.rs: the menu loop and its three handlers.  A Uuid  *)
(* is its 32 hexadecimal digits, each a number 0..15.                      *)
(***************************************************************************)
HexChars == <<"0", "1", "2", "3", "4", "5", "6", "7", "8", "9",
              "a", "b", "c", "d", "e", "f">>

\* Uuid::new_v5(&NAMESPACE, name): the first 16 bytes of the SHA-1 digest of
\* NAMESPACE ++ name, with the version digit set to 5 and the two top bits of the
\* variant digit set to 10.  digests gives the digest of each name.
new_v5(digests, name) ==
    [digests[name] EXCEPT ![13] = 5, ![17] = 8 + (@ % 4)]

\* Uuid::to_string: lower-case hexadecimal, hyphens after digits 8, 12, 16 and 20.
to_string(id) ==
    LET hex == [i \in 1..32 |-> HexChars[id[i] + 1]]
    IN  SubSeq(hex, 1, 8) \o <<"-">> \o SubSeq(hex, 9, 12) \o <<"-">>
            \o SubSeq(hex, 13, 16) \o <<"-">> \o SubSeq(hex, 17, 20) \o <<"-">>
            \o SubSeq(hex, 21, 32)

\* Uuid::parse_str on the hyphenated notation, in either letter case.  The other
\* notations the crate reads are not 36 characters with four hyphens.
parse_str(text) ==
    IF /\ Len(text) = 36
       /\ \A i \in 1..36 : IF i \in {9, 14, 19, 24} THEN text[i] = "-"
                           ELSE text[i] \in HexDigit
    THEN LET hex == to_lowercase(SubSeq(text, 1, 8) \o SubSeq(text, 10, 13)
                                    \o SubSeq(text, 15, 18) \o SubSeq(text, 20, 23)
                                    \o SubSeq(text, 25, 36))
         IN  Ok([i \in 1..32 |-> (CHOOSE n \in 1..16 : HexChars[n] = hex[i]) - 1])
    ELSE Err("invalid uuid")

\* HashMap::insert.
MapInsert(map, key, value) ==
    [k \in DOMAIN map \cup {key} |-> IF k = key THEN value ELSE map[k]]

\* The files the user can name, and what infer::get_from_path finds at each.
DemoFiles ==
    [path \in {<<"a", ".", "j", "p", "g">>, <<"A", ".", "J", "P", "G">>,
               <<"v", ".", "a", "v", "i">>, <<"x", ".", "p", "n", "g">>,
               <<"d", ".", "p", "d", "f">>, <<"u">>, <<"n">>} |->
        CASE path \in {<<"a", ".", "j", "p", "g">>, <<"A", ".", "J", "P", "G">>,
                       <<"x", ".", "p", "n", "g">>} ->
                Ok(Some([extension |-> <<"j", "p", "g">>, matcher_type |-> "Image"]))
          [] path = <<"v", ".", "a", "v", "i">> ->
                Ok(Some([extension |-> <<"a", "v", "i">>, matcher_type |-> "Video"]))
          [] path = <<"d", ".", "p", "d", "f">> ->
                Ok(Some([extension |-> <<"p", "d", "f">>, matcher_type |-> "Archive"]))
          [] path = <<"u">> -> Ok(None)
          [] OTHER -> Err("No such file or directory (os error 2)")]
DemoNames == {to_lowercase(path) : path \in DOMAIN DemoFiles}

\* The digests SHA-1 may give: all digits 0, all digits f.
Digests == {[i \in 1..32 |-> 0], [i \in 1..32 |-> 15]}

\* The lines typed at a UUID prompt: the UUIDs an upload can print, the same in upper
\* case, a digest with no version set, and an empty line.
UuidLines ==
    LET ids == {[d EXCEPT ![13] = 5, ![17] = 8 + (@ % 4)] : d \in Digests}
    IN  {to_string(id) : id \in ids} \cup {to_uppercase(to_string(id)) : id \in ids}
            \cup {to_string(d) : d \in Digests} \cup {<<>>}

\* One round of the loop of file_upload_handler that inserts without testing
\* contains_key: HashMap::insert replaces the entry of a key already present.
file_upload_round_Overwrites(map, digests, filepath) ==
    LET result == validate_file(filepath, TRUE, DemoFiles[filepath])
        key == new_v5(digests, to_lowercase(filepath))
    IN  IF result.tag = "Err"
        THEN [map |-> map, printed |-> [msg |-> "error", err |-> result.err],
              leaves |-> FALSE]
        ELSE IF result.val = 0
        THEN [map |-> map, printed |-> [msg |-> "Invalid file contents !"],
              leaves |-> FALSE]
        ELSE [map |-> MapInsert(map, key, <<filepath, result.val = 2>>),
              printed |-> [msg |-> "File uploaded successfully", uuid |-> to_string(key),
                           filepath |-> filepath, result |-> result.val],
              leaves |-> TRUE]

\* One round of the loop of file_upload_handler on the line filepath: the table
\* after it, the message printed, and whether the loop is left.
file_upload_round(map, digests, filepath) ==
    LET result == validate_file(filepath, TRUE, DemoFiles[filepath])
        key == new_v5(digests, to_lowercase(filepath))
    IN  IF result.tag = "Err"
        THEN [map |-> map, printed |-> [msg |-> "error", err |-> result.err],
              leaves |-> FALSE]
        ELSE IF result.val = 0
        THEN [map |-> map, printed |-> [msg |-> "Invalid file contents !"],
              leaves |-> FALSE]
        ELSE IF key \in DOMAIN map
        THEN [map |-> map, printed |-> [msg |-> "This file is already uploaded."],
              leaves |-> TRUE]
        ELSE [map |-> MapInsert(map, key, <<filepath, result.val = 2>>),
              printed |-> [msg |-> "File uploaded successfully", uuid |-> to_string(key),
                           filepath |-> filepath, result |-> result.val],
              leaves |-> TRUE]

\* main: the menu reads an option 0..3.
MenuSelect(option) ==
    /\ demo_pc = "menu"
    /\ demo_pc' = CASE option = 0 -> "exited"
                    [] option = 1 -> "file_upload_handler"
                    [] option = 2 -> "file_verify_handler"
                    [] option = 3 -> "get_url_handler"
    /\ printed' = IF option = 0 THEN [msg |-> "Goodbye!"] ELSE printed
    /\ UNCHANGED <<HASHMAP, sha1, upload_log, stdin_line>>
    /\ UNCHANGED <<lazy_init, callVars, concVars>>

\* file_upload_handler: one line read, one round of the loop.
FileUpload(filepath) ==
    /\ demo_pc = "file_upload_handler"
    /\ stdin_line' = filepath
    /\ LET round == file_upload_round(HASHMAP, sha1, filepath)
       IN  /\ HASHMAP' = round.map
           /\ printed' = round.printed
           /\ upload_log' = IF round.printed.msg = "File uploaded successfully"
                            THEN upload_log \cup {round.printed}
                            ELSE upload_log
           /\ demo_pc' = IF round.leaves THEN "menu" ELSE demo_pc
    /\ UNCHANGED sha1
    /\ UNCHANGED <<lazy_init, callVars, concVars>>

\* file_verify_handler: one line read, one round of the loop.
FileVerify(line) ==
    /\ demo_pc = "file_verify_handler"
    /\ stdin_line' = line
    /\ IF validate_uuid(line)
       THEN LET parsed == parse_str(line)
            IN  IF parsed.tag = "Err"
                THEN demo_pc' = "panicked" /\ UNCHANGED printed
                ELSE /\ demo_pc' = "menu"
                     /\ printed' =
                           IF parsed.val \notin DOMAIN HASHMAP
                           THEN [msg |-> "File doesn't exist.", uuid |-> line]
                           ELSE [msg |-> "File exists", uuid |-> line,
                                 is_video |-> HASHMAP[parsed.val][2]]
       ELSE demo_pc' = demo_pc /\ printed' = [msg |-> "Invalid uuid !"]
    /\ UNCHANGED <<HASHMAP, sha1, upload_log>>
    /\ UNCHANGED <<lazy_init, callVars, concVars>>

\* get_url_handler: one line read, one round of the loop.
GetUrl(line) ==
    /\ demo_pc = "get_url_handler"
    /\ stdin_line' = line
    /\ IF validate_uuid(line)
       THEN LET parsed == parse_str(line)
            IN  IF parsed.tag = "Err"
                THEN demo_pc' = "panicked" /\ UNCHANGED printed
                ELSE /\ demo_pc' = "menu"
                     /\ printed' =
                           IF parsed.val \notin DOMAIN HASHMAP
                           THEN [msg |-> "File doesn't exist.", uuid |-> line]
                           ELSE [msg |-> "sec.upload", uuid |-> line,
                                 is_video |-> HASHMAP[parsed.val][2],
                                 filepath |-> HASHMAP[parsed.val][1]]
       ELSE demo_pc' = demo_pc /\ printed' = [msg |-> "Invalid uuid !"]
    /\ UNCHANGED <<HASHMAP, sha1, upload_log>>
    /\ UNCHANGED <<lazy_init, callVars, concVars>>

InitDemo ==
    /\ pc = "done"
    /\ lazy_init = {}
    /\ IdleUrl
    /\ IdleUuid
    /\ IdleFile
    /\ IdleConcurrent
    /\ HASHMAP = <<>>
    /\ sha1 \in [DemoNames -> Digests]
    /\ demo_pc = "menu"
    /\ printed = [msg |-> "Welcome to the super secure file upload tool !"]
    /\ upload_log = {}
    /\ stdin_line = <<>>

NextDemo ==
    \/ \E option \in 0..3 : MenuSelect(option)
    \/ \E filepath \in DOMAIN DemoFiles : FileUpload(filepath)
    \/ \E line \in UuidLines : FileVerify(line)
    \/ \E line \in UuidLines : GetUrl(line)

SpecDemo == InitDemo /\ [][NextDemo]_vars

(***************************************************************************)
(* Properties of the demo program.                                         *)
(***************************************************************************)
\* An entry is never removed or changed, and "already uploaded" changes nothing.
TableOnlyGains ==
    /\ \A k \in DOMAIN HASHMAP : k \in DOMAIN HASHMAP' /\ HASHMAP'[k] = HASHMAP[k]
    /\ printed'.msg = "This file is already uploaded." => HASHMAP' = HASHMAP

\* Every entry is for a path that validate_file(path, true) classifies 1 or 2.
EntriesAreImagesOrVideos ==
    \A k \in DOMAIN HASHMAP :
        /\ HASHMAP[k][1] \in DOMAIN DemoFiles
        /\ validate_file(HASHMAP[k][1], TRUE, DemoFiles[HASHMAP[k][1]]) \in {Ok(1), Ok(2)}

\* Every UUID an upload printed passes validate_uuid, parses, and is the key of the
\* entry made by that upload, with the kind of its classification.
PrintedUuidsStayValid ==
    \A m \in upload_log :
        /\ validate_uuid(m.uuid)
        /\ parse_str(m.uuid).tag = "Ok"
        /\ parse_str(m.uuid).val \in DOMAIN HASHMAP
        /\ HASHMAP[parse_str(m.uuid).val] = <<m.filepath, m.result = 2>>

\* The answer of verify and of get URL to a printed UUID.
PrintedUuidsReportedPresent ==
    /\ demo_pc # "panicked"
    /\ \A m \in upload_log :
          (/\ stdin_line = m.uuid
           /\ printed.msg \in {"Invalid uuid !", "File doesn't exist.", "File exists",
                               "sec.upload"})
              => /\ printed.msg \in {"File exists", "sec.upload"}
                 /\ printed.is_video = (m.result = 2)
                 /\ printed.msg = "sec.upload" => printed.filepath = m.filepath

\* C12: the upload table only gains entries and an upload of a key already present
\* leaves it unchanged; an entry is added only for a path validate_file(path, true)
\* classified image or video; a UUID printed by an upload later passes validate_uuid,
\* parses without panic, and verify and get URL report its file as present with the
\* kind recorded at the upload.
C12_UploadTable ==
    /\ [](EntriesAreImagesOrVideos /\ PrintedUuidsStayValid /\ PrintedUuidsReportedPresent)
    /\ [][TableOnlyGains]_vars

C12_Witness ==
    /\ Cardinality(DOMAIN HASHMAP) = 2
    /\ Cardinality(upload_log) = 2
    /\ \E m \in upload_log : stdin_line = m.uuid /\ m.result = 2
    /\ printed.msg = "sec.upload"
    /\ printed.is_video = TRUE
    /\ printed.filepath = <<"v", ".", "a", "v", "i">>

====
